---- MODULE Spec2Model ----
(***************************************************************************)
(* Model of the RAG chatbot: App.tsx (knowledge-base state, re-index       *)
(* effect, upload / sample-load / send handlers), documentProcessor.ts     *)
(* (classifier and sliding-window chunker) and vectorService.ts            *)
(* (tokenizer, IDF, TF-IDF vectors, cosine similarity).                    *)
(*                                                                         *)
(* Text is a sequence of one-character strings.  Real numbers are kept in  *)
(* fixed point: an IDF weight is an integer number of 1/IdfScale, a vector *)
(* weight an integer number of 1/(IdfScale*TfScale), a similarity score an *)
(* integer number of 1/ScoreScale.                                         *)
(***************************************************************************)
EXTENDS Integers, Sequences, FiniteSets, Bags, TLC

\* ------------------------------------------------------------------ bounds

MaxEvents == 3    \* user events (file drops, sample loads, queries) in one behaviour
MaxCorpus == 4    \* chunks of a corpus drawn for the retrieval harness
MaxTextLen == 5   \* characters of a text chunked with a small window
MaxWindow == 3    \* window size and overlap of a small window
MaxIdfCorpus == 3 \* chunks of a corpus drawn for the indexing harness

\* ------------------------------------------------------------------- state

VARIABLES
  documents,          \* useState<DocType[]>
  chunks,             \* useState<Chunk[]>
  idfMap,             \* useState<Map<string, number>>
  chunkTfidfVectors,  \* useState<Map<string, Map<string, number>>>
  messages,           \* useState<ChatMessage[]>
  isFileProcessing,   \* useState(false)
  isAiLoading,        \* useState(false)
  queue,              \* state updates called after an await, not yet rendered
  effectPending,      \* chunks changed in the last commit, effect not yet run
  reading,            \* bag of files whose handleFileUpload awaits processFile
  send,               \* the handleSendMessage call in flight, with its closure
  apiKeySet,          \* process.env.API_KEY is set
  nEvents,            \* user events handled so far
  call                \* a direct call of an exported function: input and result

\* ------------------------------------------------------------ text helpers

Min(a, b) == IF a < b THEN a ELSE b

Range(s) == {s[i] : i \in 1..Len(s)}

LowerCase ==
  <<"a", "b", "c", "d", "e", "f", "g", "h", "i", "j", "k", "l", "m",
    "n", "o", "p", "q", "r", "s", "t", "u", "v", "w", "x", "y", "z">>
UpperCase ==
  <<"A", "B", "C", "D", "E", "F", "G", "H", "I", "J", "K", "L", "M",
    "N", "O", "P", "Q", "R", "S", "T", "U", "V", "W", "X", "Y", "Z">>
Digits == {"0", "1", "2", "3", "4", "5", "6", "7", "8", "9"}

\* String.prototype.toLowerCase: the lower-case letter of each upper-case one.
LowerOf ==
  [c \in Range(UpperCase) |->
     LowerCase[CHOOSE i \in 1..Len(UpperCase) : UpperCase[i] = c]]

toLowerCase(text) ==
  [i \in 1..Len(text) |->
     IF text[i] \in DOMAIN LowerOf THEN LowerOf[text[i]] ELSE text[i]]

\* The regular-expression classes \w (ASCII letters, digits, underscore) and \s.
WordChars == Range(LowerCase) \cup Range(UpperCase) \cup Digits \cup {"_"}
WhiteSpace == {" ", "\n", "\t"}
WordOrSpace == WordChars \cup WhiteSpace

\* text.replace(/[^\w\s]/g, '')
removePunctuation(text) == SelectSeq(text, LAMBDA c : c \in WordOrSpace)

\* text.split(/\s+/): the pieces between maximal runs of whitespace, the empty
\* piece before a leading run and after a trailing run included.
\* The least position j >= i of text that holds whitespace (inSpace) or
\* something else (~inSpace); Len(text) + 1 when there is none.
nextBoundary(text, i, inSpace) ==
  LET hits == {j \in i..Len(text) : (text[j] \in WhiteSpace) = inSpace}
  IN IF hits = {} THEN Len(text) + 1
     ELSE CHOOSE j \in hits : \A k \in hits : j <= k

RECURSIVE splitWhitespace(_, _)
splitWhitespace(text, i) ==
  LET separator == nextBoundary(text, i, TRUE)
      piece == SubSeq(text, i, separator - 1)
  IN IF separator > Len(text) THEN <<piece>>
     ELSE <<piece>> \o splitWhitespace(text, nextBoundary(text, separator, FALSE))

tokenize(text) ==
  SelectSeq(splitWhitespace(removePunctuation(toLowerCase(text)), 1),
            LAMBDA word : Len(word) > 0)

\* String.prototype.trim() leaves nothing.
IsBlank(text) == \A i \in 1..Len(text) : text[i] \in WhiteSpace

\* [query, ...expandedQueries].join(' ')
RECURSIVE joinSpace(_)
joinSpace(parts) ==
  IF Len(parts) = 0 THEN <<>>
  ELSE IF Len(parts) = 1 THEN parts[1]
  ELSE parts[1] \o <<" ">> \o joinSpace(Tail(parts))

\* ------------------------------------------------------- documentProcessor

NARRATIVE_CHUNK_CONFIG == [size |-> 800, overlap |-> 80]
ATOMIC_CHUNK_CONFIG == [size |-> 400, overlap |-> 40]

\* NEWLINE_DENSITY_THRESHOLD = 0.03 as the fraction ThresholdNum / ThresholdDen.
ThresholdNum == 3
ThresholdDen == 100

newlineCount(text) == Cardinality({i \in 1..Len(text) : text[i] = "\n"})

\* analyzeContentType with >= where the source compares with >.
analyzeContentType_AtLeast(text) ==
  IF Len(text) = 0 THEN "narrative"
  ELSE IF newlineCount(text) * ThresholdDen >= ThresholdNum * Len(text)
       THEN "atomic"
       ELSE "narrative"

analyzeContentType(text) ==
  IF Len(text) = 0 THEN "narrative"
  ELSE IF newlineCount(text) * ThresholdDen > ThresholdNum * Len(text)
       THEN "atomic"
       ELSE "narrative"

\* The loop advancing by config.size: the overlap is forgotten.
RECURSIVE slidingWindow_NoOverlap(_, _, _, _, _, _)
slidingWindow_NoOverlap(text, sourceName, contentType, config, index, chunkIndex) ==
  IF ~(index < Len(text)) THEN <<>>
  ELSE LET end == Min(index + config.size, Len(text))
           chunk == [source |-> sourceName, chunkIndex |-> chunkIndex,
                     text |-> SubSeq(text, index + 1, end),
                     contentType |-> contentType]
           nextIndex == index + config.size
       IN IF nextIndex <= index
          THEN <<chunk>>
          ELSE <<chunk>> \o
               slidingWindow_NoOverlap(text, sourceName, contentType, config,
                                       nextIndex, chunkIndex + 1)

\* The loop stopping as soon as a window reaches the end of the text:
\* `while (index + config.size < text.length)`.
RECURSIVE slidingWindow_DropsTail(_, _, _, _, _, _)
slidingWindow_DropsTail(text, sourceName, contentType, config, index, chunkIndex) ==
  IF ~(index + config.size < Len(text)) THEN <<>>
  ELSE LET end == Min(index + config.size, Len(text))
           chunk == [source |-> sourceName, chunkIndex |-> chunkIndex,
                     text |-> SubSeq(text, index + 1, end),
                     contentType |-> contentType]
           nextIndex == index + config.size - config.overlap
       IN IF nextIndex <= index
          THEN <<chunk>>
          ELSE <<chunk>> \o
               slidingWindow_DropsTail(text, sourceName, contentType, config,
                                       nextIndex, chunkIndex + 1)

\* The loop filling a window that reaches past the end of the text with
\* spaces up to config.size characters.
RECURSIVE slidingWindow_PadsLast(_, _, _, _, _, _)
slidingWindow_PadsLast(text, sourceName, contentType, config, index, chunkIndex) ==
  IF ~(index < Len(text)) THEN <<>>
  ELSE LET chunk == [source |-> sourceName, chunkIndex |-> chunkIndex,
                     text |-> [i \in 1..config.size |->
                                 IF index + i <= Len(text)
                                 THEN text[index + i] ELSE " "],
                     contentType |-> contentType]
           nextIndex == index + config.size - config.overlap
       IN IF nextIndex <= index
          THEN <<chunk>>
          ELSE <<chunk>> \o
               slidingWindow_PadsLast(text, sourceName, contentType, config,
                                      nextIndex, chunkIndex + 1)

\* The while loop of intelligentChunking; index is the 0-based window start.
RECURSIVE slidingWindow(_, _, _, _, _, _)
slidingWindow(text, sourceName, contentType, config, index, chunkIndex) ==
  IF ~(index < Len(text)) THEN <<>>
  ELSE LET end == Min(index + config.size, Len(text))
           chunk == [source |-> sourceName, chunkIndex |-> chunkIndex,
                     text |-> SubSeq(text, index + 1, end),
                     contentType |-> contentType]
           nextIndex == index + config.size - config.overlap
       IN IF nextIndex <= index
          THEN <<chunk>>
          ELSE <<chunk>> \o
               slidingWindow(text, sourceName, contentType, config,
                             nextIndex, chunkIndex + 1)

intelligentChunking(text, sourceName) ==
  LET contentType == analyzeContentType(text)
      config == IF contentType = "narrative"
                THEN NARRATIVE_CHUNK_CONFIG ELSE ATOMIC_CHUNK_CONFIG
  IN [chunks |-> slidingWindow(text, sourceName, contentType, config, 0, 0),
      contentType |-> contentType]

\* ------------------------------------------------------------ vectorService

IdfScale == 100
TfScale == 12
ScoreScale == 1000

\* LnTable[n][d] = round(IdfScale * ln(n / d)) for 1 <= d <= n <= 12.
LnTable ==
  << <<0, 0, 0, 0, 0, 0, 0, 0, 0, 0, 0, 0>>,
     <<69, 0, 0, 0, 0, 0, 0, 0, 0, 0, 0, 0>>,
     <<110, 41, 0, 0, 0, 0, 0, 0, 0, 0, 0, 0>>,
     <<139, 69, 29, 0, 0, 0, 0, 0, 0, 0, 0, 0>>,
     <<161, 92, 51, 22, 0, 0, 0, 0, 0, 0, 0, 0>>,
     <<179, 110, 69, 41, 18, 0, 0, 0, 0, 0, 0, 0>>,
     <<195, 125, 85, 56, 34, 15, 0, 0, 0, 0, 0, 0>>,
     <<208, 139, 98, 69, 47, 29, 13, 0, 0, 0, 0, 0>>,
     <<220, 150, 110, 81, 59, 41, 25, 12, 0, 0, 0, 0>>,
     <<230, 161, 120, 92, 69, 51, 36, 22, 11, 0, 0, 0>>,
     <<240, 170, 130, 101, 79, 61, 45, 32, 20, 10, 0, 0>>,
     <<248, 179, 139, 110, 88, 69, 54, 41, 29, 18, 9, 0>> >>

\* Math.log((totalDocs + 1) / (df + 1)) + 1
smoothedIdf(totalDocs, df) == LnTable[totalDocs + 1][df + 1] + IdfScale

\* new Set(tokenize(chunk.text)) of every chunk, in corpus order.
uniqueTerms(cs) == [i \in 1..Len(cs) |-> Range(tokenize(cs[i].text))]

\* docFrequency: the number of chunks whose term set holds the term.
docFrequency(termSets, term) ==
  Cardinality({i \in 1..Len(termSets) : term \in termSets[i]})

\* calculateIdf counting every occurrence of a term, not every chunk with it.
calculateIdf_CountsOccurrences(cs) ==
  LET termSets == uniqueTerms(cs)
      occurrences(term) ==
        Cardinality(UNION {{<<i, j>> :
                              j \in {n \in 1..Len(tokenize(cs[i].text)) :
                                       tokenize(cs[i].text)[n] = term}} :
                           i \in 1..Len(cs)})
  IN [term \in UNION Range(termSets) |->
        smoothedIdf(Len(cs), Min(occurrences(term), Len(cs)))]

calculateIdf(cs) ==
  LET termSets == uniqueTerms(cs)
  IN [term \in UNION Range(termSets) |->
        smoothedIdf(Len(cs), docFrequency(termSets, term))]

termFrequency(tokens, term) ==
  Cardinality({i \in 1..Len(tokens) : tokens[i] = term})

\* vectorizeWithTfidf leaving out the tokens that the IDF table lacks.
vectorizeWithTfidf_KnownTermsOnly(text, idf) ==
  LET tokens == tokenize(text)
  IN [term \in Range(tokens) \cap DOMAIN idf |->
        (termFrequency(tokens, term) * idf[term] * TfScale) \div Len(tokens)]

\* Every distinct token of the text is a key; a token the IDF table lacks
\* gets idf 0 and so weight 0.
vectorizeWithTfidf(text, idf) ==
  LET tokens == tokenize(text)
  IN [term \in Range(tokens) |->
        (termFrequency(tokens, term)
           * (IF term \in DOMAIN idf THEN idf[term] ELSE 0) * TfScale)
        \div Len(tokens)]

\* Math.sqrt, rounded down to an integer.
RECURSIVE sqrtBetween(_, _, _)
sqrtBetween(n, lo, hi) ==
  IF lo >= hi THEN lo
  ELSE LET mid == (lo + hi + 1) \div 2
       IN IF mid * mid <= n THEN sqrtBetween(n, mid, hi)
          ELSE sqrtBetween(n, lo, mid - 1)

sqrt(n) == sqrtBetween(n, 0, Min(n, 46340))

getOrZero(vec, key) == IF key \in DOMAIN vec THEN vec[key] ELSE 0

\* The accumulation loops of cosineSimilarity: the sum over keys of a * b.
RECURSIVE sumOver(_, _, _)
sumOver(keys, vecA, vecB) ==
  IF keys = {} THEN 0
  ELSE LET key == CHOOSE k \in keys : TRUE
       IN getOrZero(vecA, key) * getOrZero(vecB, key)
          + sumOver(keys \ {key}, vecA, vecB)

cosineSimilarity(vecA, vecB) ==
  LET allKeys == DOMAIN vecA \cup DOMAIN vecB
      dotProduct == sumOver(allKeys, vecA, vecB)
      magnitudeA == sqrt(sumOver(DOMAIN vecA, vecA, vecA))
      magnitudeB == sqrt(sumOver(DOMAIN vecB, vecB, vecB))
  IN IF magnitudeA = 0 \/ magnitudeB = 0 THEN 0
     ELSE (((dotProduct * 100) \div magnitudeA) * (ScoreScale \div 100))
          \div magnitudeB


\* --------------------------------------------------------- App.tsx: helpers

\* `${chunk.source}_${chunk.chunkIndex}`: the index is all digits, so the text
\* after the last underscore determines it and the string determines the pair.
getChunkId(chunk) == <<chunk.source, chunk.chunkIndex>>

RelevanceFloor == 10   \* 0.01, in 1/ScoreScale
TopK == 3

\* insertByScore with an unstable comparison: an equal score goes first.
RECURSIVE insertByScore_TiesFirst(_, _)
insertByScore_TiesFirst(sorted, item) ==
  IF sorted = <<>> THEN <<item>>
  ELSE IF Head(sorted).score > item.score
       THEN <<Head(sorted)>> \o insertByScore_TiesFirst(Tail(sorted), item)
       ELSE <<item>> \o sorted

\* Array.prototype.sort with (a, b) => b.score - a.score: stable, descending.
RECURSIVE insertByScore(_, _)
insertByScore(sorted, item) ==
  IF sorted = <<>> THEN <<item>>
  ELSE IF Head(sorted).score >= item.score
       THEN <<Head(sorted)>> \o insertByScore(Tail(sorted), item)
       ELSE <<item>> \o sorted

RECURSIVE sortByScore(_)
sortByScore(scored) ==
  IF scored = <<>> THEN <<>>
  ELSE insertByScore(sortByScore(SubSeq(scored, 1, Len(scored) - 1)),
                     scored[Len(scored)])

scoreChunk(chunk, queryVector, vectors) ==
  IF getChunkId(chunk) \notin DOMAIN vectors THEN 0
  ELSE cosineSimilarity(queryVector, vectors[getChunkId(chunk)])

\* findRelevantChunks leaving out the chunks that the retrieval before it
\* returned: a retrieval that keeps state between calls.
findRelevantChunks_SkipsServed(kb, query) ==
  IF Len(kb.chunks) = 0 \/ DOMAIN kb.chunkTfidfVectors = {}
     \/ DOMAIN kb.idfMap = {}
  THEN <<>>
  ELSE LET queryVector == vectorizeWithTfidf(query, kb.idfMap)
           scoredChunks ==
             [i \in 1..Len(kb.chunks) |->
                [chunk |-> kb.chunks[i],
                 score |-> scoreChunk(kb.chunks[i], queryVector,
                                      kb.chunkTfidfVectors)]]
           kept == SelectSeq(sortByScore(scoredChunks),
                             LAMBDA sc : /\ sc.score > RelevanceFloor
                                         /\ sc.chunk \notin
                                              Range(send.relevantChunks))
           top == SubSeq(kept, 1, Min(TopK, Len(kept)))
       IN [i \in 1..Len(top) |-> top[i].chunk]

\* findRelevantChunks without .slice(0, 3).
findRelevantChunks_NoSlice(kb, query) ==
  IF Len(kb.chunks) = 0 \/ DOMAIN kb.chunkTfidfVectors = {}
     \/ DOMAIN kb.idfMap = {}
  THEN <<>>
  ELSE LET queryVector == vectorizeWithTfidf(query, kb.idfMap)
           scoredChunks ==
             [i \in 1..Len(kb.chunks) |->
                [chunk |-> kb.chunks[i],
                 score |-> scoreChunk(kb.chunks[i], queryVector,
                                      kb.chunkTfidfVectors)]]
           kept == SelectSeq(sortByScore(scoredChunks),
                             LAMBDA sc : sc.score > RelevanceFloor)
       IN [i \in 1..Len(kept) |-> kept[i].chunk]

\* findRelevantChunks without .filter(sc => sc.score > 0.01).
findRelevantChunks_NoFilter(kb, query) ==
  IF Len(kb.chunks) = 0 \/ DOMAIN kb.chunkTfidfVectors = {}
     \/ DOMAIN kb.idfMap = {}
  THEN <<>>
  ELSE LET queryVector == vectorizeWithTfidf(query, kb.idfMap)
           scoredChunks ==
             [i \in 1..Len(kb.chunks) |->
                [chunk |-> kb.chunks[i],
                 score |-> scoreChunk(kb.chunks[i], queryVector,
                                      kb.chunkTfidfVectors)]]
           sorted == sortByScore(scoredChunks)
           top == SubSeq(sorted, 1, Min(TopK, Len(sorted)))
       IN [i \in 1..Len(top) |-> top[i].chunk]

\* findRelevantChunks, as a function of the three state values its closure
\* holds (kb.chunks, kb.chunkTfidfVectors, kb.idfMap) and of the query.
findRelevantChunks(kb, query) ==
  IF Len(kb.chunks) = 0 \/ DOMAIN kb.chunkTfidfVectors = {}
     \/ DOMAIN kb.idfMap = {}
  THEN <<>>
  ELSE LET queryVector == vectorizeWithTfidf(query, kb.idfMap)
           scoredChunks ==
             [i \in 1..Len(kb.chunks) |->
                [chunk |-> kb.chunks[i],
                 score |-> scoreChunk(kb.chunks[i], queryVector,
                                      kb.chunkTfidfVectors)]]
           kept == SelectSeq(sortByScore(scoredChunks),
                             LAMBDA sc : sc.score > RelevanceFloor)
           top == SubSeq(kept, 1, Min(TopK, Len(kept)))
       IN [i \in 1..Len(top) |-> top[i].chunk]

\* The chunk-vector map the re-index effect builds with forEach, a later chunk with the same id overwriting an earlier one.
chunkVectorsOf(cs, newIdfMap) ==
  [id \in {getChunkId(cs[i]) : i \in 1..Len(cs)} |->
     LET last == CHOOSE i \in 1..Len(cs) :
                   /\ getChunkId(cs[i]) = id
                   /\ \A j \in (i + 1)..Len(cs) : getChunkId(cs[j]) # id
     IN vectorizeWithTfidf(cs[last].text, newIdfMap)]

\* ------------------------------------------------------------- environment

MaxFileSize == 5242880   \* 5 * 1024 * 1024

\* The files the user may drop.  `readable` is FALSE for a file whose read
\* ends in reader.onerror.
FileA ==
  [name |-> "a.txt", type |-> "text/plain", size |-> 7, readable |-> TRUE,
   text |-> <<"c", "a", "t", " ", "d", "o", "g">>]
\* A second file named a.txt, with other content.
FileA2 ==
  [name |-> "a.txt", type |-> "text/plain", size |-> 8, readable |-> TRUE,
   text |-> <<"d", "o", "g", " ", "b", "i", "r", "d">>]
FileEmpty ==
  [name |-> "e.txt", type |-> "text/plain", size |-> 0, readable |-> TRUE,
   text |-> <<>>]
FileBlank ==
  [name |-> "w.txt", type |-> "text/plain", size |-> 2, readable |-> TRUE,
   text |-> <<" ", "\n">>]
FileBig ==
  [name |-> "big.txt", type |-> "text/plain", size |-> MaxFileSize + 1,
   readable |-> TRUE, text |-> <<"c", "a", "t">>]
FilePng ==
  [name |-> "p.png", type |-> "image/png", size |-> 3, readable |-> TRUE,
   text |-> <<"c", "a", "t">>]
FileBad ==
  [name |-> "x.txt", type |-> "text/plain", size |-> 3, readable |-> FALSE,
   text |-> <<"c", "a", "t">>]

Files == {FileA, FileA2, FileEmpty, FileBlank, FileBig, FilePng, FileBad}

\* What the user may type (already trimmed, never empty) and what the
\* query-expansion model may answer.
Queries == {<<"c", "a", "t">>, <<"b", "i", "r", "d">>}
Expansions == {<<>>, << <<"d", "o", "g">> >>}

\* sampleDocs of handleLoadSampleData: the three names in their listed order,
\* each content abbreviated to a few of its words (one narrative chunk each).
sampleDocs ==
  << [name |-> "cricket_rules_and_history.txt",
      content |-> <<"C", "r", "i", "c", "k", "e", "t", " ", "I", "C", "C">>],
     [name |-> "football_world_cup.txt",
      content |-> <<"F", "I", "F", "A", " ", "W", "o", "r", "l", "d", " ",
                    "C", "u", "p">>],
     [name |-> "sports_injuries_and_prevention.txt",
      content |-> <<"A", "C", "L", " ", "T", "e", "a", "r">>] >>

\* ------------------------------------------------------------- state tuple

vars ==
  <<documents, chunks, idfMap, chunkTfidfVectors, messages, isFileProcessing,
    isAiLoading, queue, effectPending, reading, send, apiKeySet, nEvents,
    call>>

EmptyMap == <<>>

NoCall == [op |-> "none"]

Idle ==
  [pc |-> "idle", query |-> <<>>,
   closure |-> [chunks |-> <<>>, chunkTfidfVectors |-> EmptyMap,
                idfMap |-> EmptyMap],
   expandedQueries |-> <<>>, relevantChunks |-> <<>>]

Init ==
  /\ documents = <<>>
  /\ chunks = <<>>
  /\ idfMap = EmptyMap
  /\ chunkTfidfVectors = EmptyMap
  /\ messages = <<>>
  /\ isFileProcessing = FALSE
  /\ isAiLoading = FALSE
  /\ queue = <<>>
  /\ effectPending = FALSE
  /\ reading = EmptyBag
  /\ send = Idle
  /\ apiKeySet \in BOOLEAN
  /\ nEvents = 0
  /\ call = NoCall

\* ------------------------------------------------- state updates and commit

\* One setState call: a plain value (set...) or a functional updater (append...).
applyUpdate(st, u) ==
  CASE u.op = "setDocuments" -> [st EXCEPT !.documents = u.arg]
    [] u.op = "appendDocument" -> [st EXCEPT !.documents = Append(@, u.arg)]
    [] u.op = "setChunks" -> [st EXCEPT !.chunks = u.arg]
    [] u.op = "appendChunks" -> [st EXCEPT !.chunks = @ \o u.arg]
    [] u.op = "setMessages" -> [st EXCEPT !.messages = u.arg]
    [] u.op = "appendMessage" -> [st EXCEPT !.messages = Append(@, u.arg)]
    [] u.op = "setIsFileProcessing" -> [st EXCEPT !.isFileProcessing = u.arg]
    [] u.op = "setIsAiLoading" -> [st EXCEPT !.isAiLoading = u.arg]

RECURSIVE applyAll(_, _)
applyAll(st, updates) ==
  IF updates = <<>> THEN st
  ELSE applyAll(applyUpdate(st, Head(updates)), Tail(updates))

committed ==
  [documents |-> documents, chunks |-> chunks, messages |-> messages,
   isFileProcessing |-> isFileProcessing, isAiLoading |-> isAiLoading]

\* Every setChunks call stores a new array, so the effect's dependency changes.
touchesChunks(updates) ==
  \E i \in 1..Len(updates) : updates[i].op \in {"setChunks", "appendChunks"}

\* The effect vectorizing with the idfMap of its render instead of newIdfMap.
reindexed_StaleIdf(cs) ==
  IF Len(cs) = 0
  THEN [idfMap |-> EmptyMap, chunkTfidfVectors |-> EmptyMap]
  ELSE [idfMap |-> calculateIdf(cs),
        chunkTfidfVectors |-> chunkVectorsOf(cs, idfMap)]

\* The body of useEffect(..., [chunks]) run on the chunks cs: the two values it
\* hands to setIdfMap and setChunkTfidfVectors.
reindexed(cs) ==
  IF Len(cs) = 0
  THEN [idfMap |-> EmptyMap, chunkTfidfVectors |-> EmptyMap]
  ELSE LET newIdfMap == calculateIdf(cs)
       IN [idfMap |-> newIdfMap,
           chunkTfidfVectors |-> chunkVectorsOf(cs, newIdfMap)]

\* A render commits the pending updates in call order.  An effect left
\* pending by the previous commit is flushed first, on that commit's chunks.
commit(updates, effectRunsNow) ==
  LET st == applyAll(committed, updates)
      indexed == IF effectRunsNow THEN st.chunks ELSE chunks
      reindex == effectRunsNow \/ effectPending
  IN /\ documents' = st.documents
     /\ chunks' = st.chunks
     /\ messages' = st.messages
     /\ isFileProcessing' = st.isFileProcessing
     /\ isAiLoading' = st.isAiLoading
     /\ idfMap' = IF reindex THEN reindexed(indexed).idfMap ELSE idfMap
     /\ chunkTfidfVectors' =
          IF reindex THEN reindexed(indexed).chunkTfidfVectors
          ELSE chunkTfidfVectors
     /\ effectPending' = (~effectRunsNow /\ touchesChunks(updates))
     /\ queue' = <<>>

\* The render of updates made after an await (scheduled, not synchronous).
render ==
  /\ queue # <<>>
  /\ commit(queue, FALSE)
  /\ UNCHANGED <<reading, send, apiKeySet, call, nEvents>>

\* A discrete event (click, drop, submit): the handler's updates are rendered
\* before the next event, together with whatever was pending; when the handler
\* itself changed chunks the effect is flushed with that render.
discreteEvent(own) == commit(queue \o own, touchesChunks(own))

\* The effect run after a commit that changed chunks; both setters are called
\* in the one run and rendered together.
reindexEffect ==
  /\ effectPending
  /\ idfMap' = reindexed(chunks).idfMap
  /\ chunkTfidfVectors' = reindexed(chunks).chunkTfidfVectors
  /\ effectPending' = FALSE
  /\ UNCHANGED <<documents, chunks, messages, isFileProcessing, isAiLoading,
                 queue, reading, send, apiKeySet, call, nEvents>>

\* ---------------------------------------------------------------- handlers

set(op, arg) == [op |-> op, arg |-> arg]

aiMessage(kind, text, sources, expandedQueries) ==
  [sender |-> "ai", kind |-> kind, text |-> text, sources |-> sources,
   expandedQueries |-> expandedQueries]

userMessage(query) ==
  [sender |-> "user", kind |-> "query", text |-> query, sources |-> <<>>,
   expandedQueries |-> <<>>]

\* addDocumentToKnowledgeBase storing the new chunks with setChunks(newChunks)
\* instead of appending them to the previous ones.
addDocumentToKnowledgeBase_ReplacesChunks(fileName, fileType, fileSize, textContent) ==
  LET chunked == intelligentChunking(textContent, fileName)
  IN << set("appendDocument",
            [name |-> fileName, type |-> fileType, size |-> fileSize]),
        set("setChunks", chunked.chunks),
        set("appendMessage",
            aiMessage("processed", <<fileName, chunked.contentType>>,
                      <<>>, <<>>)) >>

\* The setState calls of addDocumentToKnowledgeBase, in call order.
addDocumentToKnowledgeBase(fileName, fileType, fileSize, textContent) ==
  LET chunked == intelligentChunking(textContent, fileName)
  IN << set("appendDocument",
            [name |-> fileName, type |-> fileType, size |-> fileSize]),
        set("appendChunks", chunked.chunks),
        set("appendMessage",
            aiMessage("processed", <<fileName, chunked.contentType>>,
                      <<>>, <<>>)) >>

\* handleFileUpload up to its await, called by FileUpload.handleDrop (never
\* disabled) or handleFileChange: either the size check throws and the
\* finally block runs at once, or processFile starts.
handleFileUpload(file) ==
  /\ nEvents < MaxEvents
  /\ nEvents' = nEvents + 1
  /\ IF file.size > MaxFileSize
     THEN /\ discreteEvent(<<set("setIsFileProcessing", TRUE),
                             set("setIsFileProcessing", FALSE)>>)
          /\ reading' = reading
     ELSE /\ discreteEvent(<<set("setIsFileProcessing", TRUE)>>)
          /\ reading' = reading (+) SetToBag({file})
  /\ UNCHANGED <<send, apiKeySet, call>>

\* processFile resolved (reader.onload): the rest of the try block and finally.
fileLoaded(file) ==
  /\ BagIn(file, reading)
  /\ file.type = "text/plain"
  /\ file.readable
  /\ reading' = reading (-) SetToBag({file})
  /\ queue' = queue
              \o addDocumentToKnowledgeBase(file.name, file.type, file.size,
                                            file.text)
              \o <<set("setIsFileProcessing", FALSE)>>
  /\ UNCHANGED <<documents, chunks, idfMap, chunkTfidfVectors, messages,
                 isFileProcessing, isAiLoading, effectPending, send,
                 apiKeySet, call, nEvents>>

\* handleFileUpload's catch block after a call of setDocuments made before the
\* await: the Document of a file that could not be read.
fileRejected_KeepsDocument(file) ==
  /\ BagIn(file, reading)
  /\ file.type # "text/plain" \/ ~file.readable
  /\ reading' = reading (-) SetToBag({file})
  /\ queue' = queue
              \o <<set("appendDocument",
                       [name |-> file.name, type |-> file.type,
                        size |-> file.size]),
                   set("setIsFileProcessing", FALSE)>>
  /\ UNCHANGED <<documents, chunks, idfMap, chunkTfidfVectors, messages,
                 isFileProcessing, isAiLoading, effectPending, send,
                 apiKeySet, call, nEvents>>

\* processFile rejected (wrong MIME type, or reader.onerror): catch and finally.
fileRejected(file) ==
  /\ BagIn(file, reading)
  /\ file.type # "text/plain" \/ ~file.readable
  /\ reading' = reading (-) SetToBag({file})
  /\ queue' = Append(queue, set("setIsFileProcessing", FALSE))
  /\ UNCHANGED <<documents, chunks, idfMap, chunkTfidfVectors, messages,
                 isFileProcessing, isAiLoading, effectPending, send,
                 apiKeySet, call, nEvents>>

\* The setDocuments / setChunks calls of the for loop over sampleDocs.
RECURSIVE sampleUpdates(_)
sampleUpdates(docs) ==
  IF docs = <<>> THEN <<>>
  ELSE LET doc == Head(docs)
       IN << set("appendDocument",
                 [name |-> doc.name, type |-> "text/plain",
                  size |-> Len(doc.content)]),
             set("appendChunks",
                 intelligentChunking(doc.content, doc.name).chunks) >>
          \o sampleUpdates(Tail(docs))

\* handleLoadSampleData without setDocuments([]) and setChunks([]).
handleLoadSampleData_NoClear ==
  /\ nEvents < MaxEvents
  /\ nEvents' = nEvents + 1
  /\ messages = <<>>
  /\ discreteEvent(sampleUpdates(sampleDocs)
                   \o <<set("setMessages",
                            <<aiMessage("sample", <<>>, <<>>, <<>>)>>)>>)
  /\ UNCHANGED <<reading, send, apiKeySet, call>>

\* The button that calls it is rendered only while messages is empty.
handleLoadSampleData ==
  /\ nEvents < MaxEvents
  /\ nEvents' = nEvents + 1
  /\ messages = <<>>
  /\ discreteEvent(<<set("setDocuments", <<>>), set("setChunks", <<>>)>>
                   \o sampleUpdates(sampleDocs)
                   \o <<set("setMessages",
                            <<aiMessage("sample", <<>>, <<>>, <<>>)>>)>>)
  /\ UNCHANGED <<reading, send, apiKeySet, call>>

\* handleSubmit without `!isAiLoading`: a query sent while a response is
\* pending.
handleSendMessage_WhileLoading(query) ==
  /\ nEvents < MaxEvents
  /\ Len(chunks) > 0
  /\ query # <<>>
  /\ nEvents' = nEvents + 1
  /\ send' = [pc |-> "expanding", query |-> query,
              closure |-> [chunks |-> chunks,
                           chunkTfidfVectors |-> chunkTfidfVectors,
                           idfMap |-> idfMap],
              expandedQueries |-> <<>>, relevantChunks |-> <<>>]
  /\ discreteEvent(<<set("appendMessage", userMessage(query)),
                     set("setIsAiLoading", TRUE)>>)
  /\ UNCHANGED <<reading, apiKeySet, call>>

\* ChatWindow.handleSubmit and handleSendMessage up to `await expandQuery`.
\* The handler is the one of the committed render: its findRelevantChunks
\* closes over that render's chunks, chunkTfidfVectors and idfMap.
handleSendMessage(query) ==
  /\ nEvents < MaxEvents
  /\ ~isAiLoading
  /\ Len(chunks) > 0
  /\ query # <<>>
  /\ nEvents' = nEvents + 1
  /\ send' = [pc |-> "expanding", query |-> query,
              closure |-> [chunks |-> chunks,
                           chunkTfidfVectors |-> chunkTfidfVectors,
                           idfMap |-> idfMap],
              expandedQueries |-> <<>>, relevantChunks |-> <<>>]
  /\ discreteEvent(<<set("appendMessage", userMessage(query)),
                     set("setIsAiLoading", TRUE)>>)
  /\ UNCHANGED <<reading, apiKeySet, call>>

\* handleSendMessage retrieving with the original query alone.
expandQueryResolved_OriginalOnly(expandedQueries) ==
  /\ send.pc = "expanding"
  /\ apiKeySet
  /\ send' = [send EXCEPT
                !.pc = "generating",
                !.expandedQueries = expandedQueries,
                !.relevantChunks = findRelevantChunks(send.closure, send.query)]
  /\ UNCHANGED <<documents, chunks, idfMap, chunkTfidfVectors, messages,
                 isFileProcessing, isAiLoading, queue, effectPending,
                 reading, apiKeySet, call, nEvents>>

\* expandQuery resolved (with [] when the request or the parse failed):
\* retrieval with the closure, then the call of getChatbotResponse.
expandQueryResolved(expandedQueries) ==
  /\ send.pc = "expanding"
  /\ apiKeySet
  /\ send' = [send EXCEPT
                !.pc = "generating",
                !.expandedQueries = expandedQueries,
                !.relevantChunks =
                  findRelevantChunks(send.closure,
                                     joinSpace(<<send.query>>
                                               \o expandedQueries))]
  /\ UNCHANGED <<documents, chunks, idfMap, chunkTfidfVectors, messages,
                 isFileProcessing, isAiLoading, queue, effectPending,
                 reading, apiKeySet, call, nEvents>>

\* The catch block without its setMessages: the failure is swallowed.
expandQueryRejected_Silent ==
  /\ send.pc = "expanding"
  /\ ~apiKeySet
  /\ send' = Idle
  /\ queue' = queue \o <<set("setIsAiLoading", FALSE)>>
  /\ UNCHANGED <<documents, chunks, idfMap, chunkTfidfVectors, messages,
                 isFileProcessing, isAiLoading, effectPending, reading,
                 apiKeySet, call, nEvents>>

\* getGeminiService throws before expandQuery's try block: the await rejects
\* and handleSendMessage's catch and finally blocks run.
expandQueryRejected ==
  /\ send.pc = "expanding"
  /\ ~apiKeySet
  /\ send' = Idle
  /\ queue' = queue
              \o <<set("appendMessage", aiMessage("error", <<>>, <<>>, <<>>)),
                   set("setIsAiLoading", FALSE)>>
  /\ UNCHANGED <<documents, chunks, idfMap, chunkTfidfVectors, messages,
                 isFileProcessing, isAiLoading, effectPending, reading,
                 apiKeySet, call, nEvents>>

\* handleSendMessage also storing the retrieved chunks with setChunks.
chatbotResponded_StoresSources(kind) ==
  /\ send.pc = "generating"
  /\ send' = Idle
  /\ queue' = queue
              \o <<set("appendMessage",
                       aiMessage(kind, <<>>, send.relevantChunks,
                                 send.expandedQueries)),
                   set("setChunks", send.relevantChunks),
                   set("setIsAiLoading", FALSE)>>
  /\ UNCHANGED <<documents, chunks, idfMap, chunkTfidfVectors, messages,
                 isFileProcessing, isAiLoading, effectPending, reading,
                 apiKeySet, call, nEvents>>

\* getChatbotResponse resolved, with the model's answer or with its apology
\* string: the AI message and the finally block.
chatbotResponded(kind) ==
  /\ send.pc = "generating"
  /\ send' = Idle
  /\ queue' = queue
              \o <<set("appendMessage",
                       aiMessage(kind, <<>>, send.relevantChunks,
                                 send.expandedQueries)),
                   set("setIsAiLoading", FALSE)>>
  /\ UNCHANGED <<documents, chunks, idfMap, chunkTfidfVectors, messages,
                 isFileProcessing, isAiLoading, effectPending, reading,
                 apiKeySet, call, nEvents>>

Next ==
  \/ \E file \in Files : handleFileUpload(file)
  \/ \E file \in Files : fileLoaded(file)
  \/ \E file \in Files : fileRejected(file)
  \/ handleLoadSampleData
  \/ \E query \in Queries : handleSendMessage(query)
  \/ \E expandedQueries \in Expansions : expandQueryResolved(expandedQueries)
  \/ expandQueryRejected
  \/ \E kind \in {"answer", "apology"} : chatbotResponded(kind)
  \/ render
  \/ reindexEffect

Spec == Init /\ [][Next]_vars

\* Every promise settles (the file reader, the two Gemini requests) and every
\* scheduled render and passive effect runs.
\* TLC decides ENABLED by evaluating an action's right-hand sides, which for
\* render (a re-index) and expandQueryResolved (a retrieval) is costly.  The
\* two actions below have the same guards and the same steps within Next, and
\* their first disjunct names one next state, so that enabledness is decided
\* from the guard alone.

\* A render step: it is the one step of Next that empties a non-empty queue
\* and leaves reading, send and nEvents alone.
renderScheduled ==
  /\ queue # <<>>
  /\ queue' = <<>>
  /\ UNCHANGED <<reading, send, apiKeySet, call, nEvents>>
  /\ \/ UNCHANGED <<documents, chunks, idfMap, chunkTfidfVectors, messages,
                     isFileProcessing, isAiLoading, effectPending>>
     \/ TRUE

\* The step that settles `await expandQuery` with a value: a step of
\* expandQueryResolved.
expandQuerySettled ==
  /\ send.pc = "expanding"
  /\ apiKeySet
  /\ \/ send' = [send EXCEPT !.pc = "generating"]
     \/ send'.pc = "generating"
  /\ UNCHANGED <<documents, chunks, idfMap, chunkTfidfVectors, messages,
                 isFileProcessing, isAiLoading, queue, effectPending,
                 reading, apiKeySet, call, nEvents>>

\* What the runtime guarantees for an exchange: a scheduled render runs and
\* an awaited promise settles.
Fairness ==
  /\ WF_vars(renderScheduled)
  /\ WF_vars(expandQuerySettled)
  /\ WF_vars(expandQueryRejected)
  /\ WF_vars(\E kind \in {"answer", "apology"} : chatbotResponded(kind))

FairSpec == Spec /\ Fairness

\* ------------------------------------------------ retrieval as a function

\* findRelevantChunks applied to drawn knowledge bases: a corpus of up to
\* MaxCorpus one-chunk documents, with the index of the whole corpus or the
\* index a pending effect has not yet refreshed (of all but the last chunk).
CorpusTexts ==
  { <<"c", "a", "t", " ", "d", "o", "g">>,
    <<"d", "o", "g", " ", "b", "i", "r", "d">>,
    <<"c", "a", "t">>,
    <<" ", "\n">> }

CorpusNames ==
  <<"d1.txt", "d2.txt", "d3.txt", "d4.txt", "d5.txt", "d6.txt", "d7.txt">>

CorpusQueries ==
  { <<"c", "a", "t">>,
    <<"d", "o", "g">>,
    <<"C", "a", "t", "!", " ", "d", "o", "g">>,
    <<"b", "i", "r", "d", " ", "c", "a", "t">>,
    <<"e", "m", "u">>,
    <<"!", "?">>,
    <<>> }

\* File names of a corpus of k documents: all different, or the last document
\* uploaded under the name of the first (nothing in the upload path forbids it).
corpusNaming(k, sameName) ==
  [i \in 1..k |-> IF sameName /\ i = k THEN CorpusNames[1] ELSE CorpusNames[i]]

RECURSIVE corpusOf(_, _, _)
corpusOf(texts, names, i) ==
  IF i > Len(texts) THEN <<>>
  ELSE intelligentChunking(texts[i], names[i]).chunks
       \o corpusOf(texts, names, i + 1)

InitRetrieval ==
  \E k \in 0..MaxCorpus : \E texts \in [1..k -> CorpusTexts] :
    \E indexedLen \in {n \in {k - 1, k} : n >= 0} : \E sameName \in BOOLEAN :
      /\ documents = [i \in 1..k |->
                        [name |-> corpusNaming(k, sameName)[i],
                         type |-> "text/plain", size |-> Len(texts[i])]]
      /\ chunks = corpusOf(texts, corpusNaming(k, sameName), 1)
      /\ idfMap = reindexed(SubSeq(chunks, 1, indexedLen)).idfMap
      /\ chunkTfidfVectors =
           reindexed(SubSeq(chunks, 1, indexedLen)).chunkTfidfVectors
      /\ effectPending = (indexedLen # k)
      /\ messages = <<>>
      /\ isFileProcessing = FALSE
      /\ isAiLoading = FALSE
      /\ queue = <<>>
      /\ reading = EmptyBag
      /\ send = Idle
      /\ apiKeySet = TRUE
      /\ nEvents = 0
      /\ call = NoCall

callFindRelevantChunks(query) ==
  /\ send.pc = "idle"
  /\ send' = [pc |-> "generating", query |-> query,
              closure |-> [chunks |-> chunks,
                           chunkTfidfVectors |-> chunkTfidfVectors,
                           idfMap |-> idfMap],
              expandedQueries |-> <<>>,
              relevantChunks |->
                findRelevantChunks([chunks |-> chunks,
                                    chunkTfidfVectors |-> chunkTfidfVectors,
                                    idfMap |-> idfMap], query)]
  /\ UNCHANGED <<documents, chunks, idfMap, chunkTfidfVectors, messages,
                 isFileProcessing, isAiLoading, queue, effectPending,
                 reading, apiKeySet, call, nEvents>>

NextRetrieval == \E query \in CorpusQueries : callFindRelevantChunks(query)

RetrievalSpec == InitRetrieval /\ [][NextRetrieval]_vars

\* A second call of findRelevantChunks, of the same render as the first.
RepeatQueries ==
  { <<"d", "o", "g">>,
    <<"C", "a", "t", "!", " ", "d", "o", "g">> }

callFindRelevantChunksAgain(query) ==
  /\ send.pc = "generating"
  /\ call = NoCall
  /\ call' = [op |-> "findRelevantChunks", query |-> query,
              result |->
                findRelevantChunks([chunks |-> chunks,
                                    chunkTfidfVectors |-> chunkTfidfVectors,
                                    idfMap |-> idfMap], query)]
  /\ UNCHANGED <<documents, chunks, idfMap, chunkTfidfVectors, messages,
                 isFileProcessing, isAiLoading, queue, effectPending,
                 reading, send, apiKeySet, nEvents>>

NextRepeat ==
  \/ \E query \in RepeatQueries : callFindRelevantChunks(query)
  \/ \E query \in RepeatQueries : callFindRelevantChunksAgain(query)

RepeatSpec == InitRetrieval /\ [][NextRepeat]_vars

\* ------------------------------------------------------- harness: chunking

\* Texts chunked with a small window, and the small windows: the loop of
\* intelligentChunking reads size and overlap from its config object.
ChunkAlphabet == {"A", "B"}
ShortTexts == UNION {[1..n -> ChunkAlphabet] : n \in 0..MaxTextLen}
WindowConfigs ==
  {[size |-> size, overlap |-> overlap] :
     size \in 1..MaxWindow, overlap \in 0..MaxWindow}

\* Texts chunked with the shipped windows: newlines leading characters that
\* change with the position.
patternText(length, newlines) ==
  [i \in 1..length |->
     IF i <= newlines THEN "\n" ELSE LowerCase[((i - 1) % 7) + 1]]
PatternLengths == {0, 1, 33, 34, 100, 450, 900, 1500}
PatternNewlines == {0, 1, 3, 4, 13, 14, 27, 28}
PatternTexts ==
  UNION {{patternText(length, newlines) :
            newlines \in {n \in PatternNewlines : n <= length}} :
         length \in PatternLengths}

InitChunking ==
  /\ documents = <<>>
  /\ chunks = <<>>
  /\ idfMap = EmptyMap
  /\ chunkTfidfVectors = EmptyMap
  /\ messages = <<>>
  /\ isFileProcessing = FALSE
  /\ isAiLoading = FALSE
  /\ queue = <<>>
  /\ effectPending = FALSE
  /\ reading = EmptyBag
  /\ send = Idle
  /\ apiKeySet = TRUE
  /\ nEvents = 0
  /\ \/ \E text \in ShortTexts : \E config \in WindowConfigs :
          call = [op |-> "slidingWindow", text |-> text, config |-> config,
                  done |-> FALSE, contentType |-> "narrative",
                  chunks |-> <<>>]
     \/ \E text \in PatternTexts :
          call = [op |-> "intelligentChunking", text |-> text,
                  config |-> NARRATIVE_CHUNK_CONFIG, done |-> FALSE,
                  contentType |-> "narrative", chunks |-> <<>>]

\* The chunking loop run on call.text with the window call.config.
callSlidingWindow ==
  /\ call.op = "slidingWindow"
  /\ ~call.done
  /\ call' = [call EXCEPT
                !.done = TRUE,
                !.chunks = slidingWindow(call.text, "doc.txt", "narrative",
                                         call.config, 0, 0)]
  /\ UNCHANGED <<documents, chunks, idfMap, chunkTfidfVectors, messages,
                 isFileProcessing, isAiLoading, queue, effectPending,
                 reading, send, apiKeySet, nEvents>>

\* intelligentChunking(call.text, "doc.txt"); call.config records the window
\* the function chose.
callIntelligentChunking ==
  /\ call.op = "intelligentChunking"
  /\ ~call.done
  /\ LET result == intelligentChunking(call.text, "doc.txt")
     IN call' = [call EXCEPT
                   !.done = TRUE,
                   !.chunks = result.chunks,
                   !.contentType = result.contentType,
                   !.config = IF result.contentType = "narrative"
                              THEN NARRATIVE_CHUNK_CONFIG
                              ELSE ATOMIC_CHUNK_CONFIG]
  /\ UNCHANGED <<documents, chunks, idfMap, chunkTfidfVectors, messages,
                 isFileProcessing, isAiLoading, queue, effectPending,
                 reading, send, apiKeySet, nEvents>>

NextChunking == callSlidingWindow \/ callIntelligentChunking

ChunkingSpec == InitChunking /\ [][NextChunking]_vars

\* ---------------------------------------------------------- ingestion harness

\* Uploads with a text of more than one chunk: a second a.txt, atomic (450
\* characters, 14 of them newlines: windows at 0 and 360).
FileAtomic ==
  [name |-> "a.txt", type |-> "text/plain", size |-> 450, readable |-> TRUE,
   text |-> patternText(450, 14)]
IngestFiles == {FileA, FileAtomic, FileEmpty, FileBad}

NextIngest ==
  \/ \E file \in IngestFiles : handleFileUpload(file)
  \/ \E file \in IngestFiles : fileLoaded(file)
  \/ \E file \in IngestFiles : fileRejected(file)
  \/ handleLoadSampleData
  \/ render
  \/ reindexEffect

IngestSpec == Init /\ [][NextIngest]_vars

\* ------------------------------------------------------- harness: indexing

IdfTexts ==
  { <<"c", "a", "t", " ", "c", "a", "t", " ", "d", "o", "g">>,
    <<"d", "o", "g">>,
    <<"C", "a", "t", "!", " ", "b", "i", "r", "d">>,
    <<" ", "\n">> }

VectorTexts ==
  { <<"c", "a", "t">>,
    <<"e", "m", "u", " ", "c", "a", "t">>,
    <<"e", "m", "u">>,
    <<"d", "o", "g", " ", "D", "o", "g", " ", "c", "a", "t">>,
    <<>> }

InitIndexing ==
  /\ documents = <<>>
  /\ chunks = <<>>
  /\ idfMap = EmptyMap
  /\ chunkTfidfVectors = EmptyMap
  /\ messages = <<>>
  /\ isFileProcessing = FALSE
  /\ isAiLoading = FALSE
  /\ queue = <<>>
  /\ effectPending = FALSE
  /\ reading = EmptyBag
  /\ send = Idle
  /\ apiKeySet = TRUE
  /\ nEvents = 0
  /\ \E k \in 0..MaxIdfCorpus : \E texts \in [1..k -> IdfTexts] :
       call = [op |-> "calculateIdf",
               chunks |-> [i \in 1..k |->
                             [source |-> CorpusNames[i], chunkIndex |-> 0,
                              text |-> texts[i], contentType |-> "narrative"]],
               idf |-> EmptyMap, text |-> <<>>, vector |-> EmptyMap]

\* calculateIdf(call.chunks)
callCalculateIdf ==
  /\ call.op = "calculateIdf"
  /\ call' = [call EXCEPT !.op = "calculatedIdf",
                          !.idf = calculateIdf(call.chunks)]
  /\ UNCHANGED <<documents, chunks, idfMap, chunkTfidfVectors, messages,
                 isFileProcessing, isAiLoading, queue, effectPending,
                 reading, send, apiKeySet, nEvents>>

\* vectorizeWithTfidf(text, idf) with the table calculateIdf returned, for a
\* chunk of the corpus or for a query.
callVectorizeWithTfidf(text) ==
  /\ call.op = "calculatedIdf"
  /\ call' = [call EXCEPT !.op = "vectorized",
                          !.text = text,
                          !.vector = vectorizeWithTfidf(text, call.idf)]
  /\ UNCHANGED <<documents, chunks, idfMap, chunkTfidfVectors, messages,
                 isFileProcessing, isAiLoading, queue, effectPending,
                 reading, send, apiKeySet, nEvents>>

NextIndexing ==
  \/ callCalculateIdf
  \/ \E text \in VectorTexts \cup IdfTexts : callVectorizeWithTfidf(text)

IndexingSpec == InitIndexing /\ [][NextIndexing]_vars

\* -------------------------------------------------------- tokenizing harness

MaxTokenText == 4

\* Texts over a lower-case and an upper-case letter, a digit, the underscore,
\* a punctuation mark, a letter outside ASCII and two kinds of whitespace.
TokenAlphabet == {"a", "B", "1", "_", "!", "é", " ", "\n"}
TokenTexts == UNION {[1..n -> TokenAlphabet] : n \in 0..MaxTokenText}

InitTokenizing ==
  /\ documents = <<>>
  /\ chunks = <<>>
  /\ idfMap = EmptyMap
  /\ chunkTfidfVectors = EmptyMap
  /\ messages = <<>>
  /\ isFileProcessing = FALSE
  /\ isAiLoading = FALSE
  /\ queue = <<>>
  /\ effectPending = FALSE
  /\ reading = EmptyBag
  /\ send = Idle
  /\ apiKeySet = TRUE
  /\ nEvents = 0
  /\ \E text \in TokenTexts :
       call = [op |-> "tokenize", text |-> text, tokens |-> <<>>,
               idf |-> EmptyMap, vector |-> EmptyMap]

\* tokenize(call.text)
callTokenize ==
  /\ call.op = "tokenize"
  /\ call' = [call EXCEPT !.op = "tokenized", !.tokens = tokenize(call.text)]
  /\ UNCHANGED <<documents, chunks, idfMap, chunkTfidfVectors, messages,
                 isFileProcessing, isAiLoading, queue, effectPending,
                 reading, send, apiKeySet, nEvents>>

\* call.text indexed as the one chunk of a corpus (calculateIdf) and then
\* vectorized as a query against that table (vectorizeWithTfidf).
callIndexAndQuery ==
  /\ call.op = "tokenized"
  /\ LET idf == calculateIdf(<<[source |-> "doc.txt", chunkIndex |-> 0,
                                text |-> call.text,
                                contentType |-> "narrative"]>>)
     IN call' = [call EXCEPT !.op = "indexed",
                             !.idf = idf,
                             !.vector = vectorizeWithTfidf(call.text, idf)]
  /\ UNCHANGED <<documents, chunks, idfMap, chunkTfidfVectors, messages,
                 isFileProcessing, isAiLoading, queue, effectPending,
                 reading, send, apiKeySet, nEvents>>

NextTokenizing == callTokenize \/ callIndexAndQuery

TokenizingSpec == InitTokenizing /\ [][NextTokenizing]_vars

\* ------------------------------------------------------------------ claims

\* What the findRelevantChunks call of the exchange in flight read and scored.
retrievalQuery == joinSpace(<<send.query>> \o send.expandedQueries)

closureScore(chunk) ==
  scoreChunk(chunk, vectorizeWithTfidf(retrievalQuery, send.closure.idfMap),
             send.closure.chunkTfidfVectors)

indexOf(cs) ==
  [chunks |-> cs, chunkTfidfVectors |-> reindexed(cs).chunkTfidfVectors,
   idfMap |-> reindexed(cs).idfMap]

\* C1: whenever handleSendMessage evaluates findRelevantChunks (after awaiting
\* expandQuery), the chunks, idfMap and chunkTfidfVectors it reads are the
\* current chunks and the index computed from them.
C1_RetrievalReadsCurrentIndex ==
  [][\A expandedQueries \in Expansions :
       expandQueryResolved(expandedQueries) => send.closure = indexOf(chunks)]_vars

\* Every vector of the knowledge base kb is the TF-IDF vector of one of kb's
\* chunks with that id, computed with kb's own IDF table.
pairedIndex(kb) ==
  \A id \in DOMAIN kb.chunkTfidfVectors :
    \E i \in 1..Len(kb.chunks) :
      /\ getChunkId(kb.chunks[i]) = id
      /\ kb.chunkTfidfVectors[id]
           = vectorizeWithTfidf(kb.chunks[i].text, kb.idfMap)

\* C2: in every committed render, and in the closure of every exchange in
\* flight, all chunk vectors were computed with exactly the IDF table that
\* stands next to them: the two are replaced together.
C2_VectorsPairedWithIdf ==
  /\ pairedIndex([chunks |-> chunks, chunkTfidfVectors |-> chunkTfidfVectors,
                  idfMap |-> idfMap])
  /\ send.pc # "idle" => pairedIndex(send.closure)

\* C2 witness: a retrieval has read a non-empty index and found chunks, after
\* the index had been rebuilt for a corpus of more than one chunk.
C2_Witness ==
  /\ send.pc = "generating"
  /\ Cardinality(DOMAIN send.closure.chunkTfidfVectors) > 1
  /\ DOMAIN send.closure.idfMap # {}
  /\ send.relevantChunks # <<>>

\* C3: when the ingest call returns (the step in which fileLoaded runs
\* addDocumentToKnowledgeBase), documents and chunks already end with the new
\* Document and Chunks and the index is already that of the new chunks.
C3_IngestIsSynchronous ==
  [][\A file \in Files :
       fileLoaded(file) =>
         LET newChunks == intelligentChunking(file.text, file.name).chunks
         IN /\ Len(documents') > 0
            /\ documents'[Len(documents')].name = file.name
            /\ Len(chunks') >= Len(newChunks)
            /\ SubSeq(chunks', Len(chunks') - Len(newChunks) + 1,
                      Len(chunks')) = newChunks
            /\ idfMap' = reindexed(chunks').idfMap
            /\ chunkTfidfVectors' = reindexed(chunks').chunkTfidfVectors]_vars

\* C4: ingesting a file whose name is that of a Document already in documents
\* fails like a rejected upload: nothing but the finally block's update is
\* made, so documents, chunks, the index and messages stay as they are.
C4_DuplicateNameRejected ==
  [][\A file \in Files :
       (fileLoaded(file)
          /\ \E i \in 1..Len(documents) : documents[i].name = file.name)
       => queue' = Append(queue, set("setIsFileProcessing", FALSE))]_vars

\* C5: no two chunks share (source, chunkIndex), and once the index is
\* rebuilt there are as many vectors as chunks.
C5_ChunkIdsUnique ==
  /\ \A i, j \in 1..Len(chunks) :
       i # j => getChunkId(chunks[i]) # getChunkId(chunks[j])
  /\ ~effectPending => Cardinality(DOMAIN chunkTfidfVectors) = Len(chunks)

\* C6: ingesting a text that is empty after trimming fails like a rejected
\* upload: no Document, no Chunk and no success message is appended.
C6_BlankTextRejected ==
  [][\A file \in Files :
       (fileLoaded(file) /\ IsBlank(file.text))
       => queue' = Append(queue, set("setIsFileProcessing", FALSE))]_vars

\* C7: a retrieval returns at most 3 chunks, each with a cosine similarity to
\* the query vector above the relevance floor.
C7_AtMostThreeAboveFloor ==
  send.pc = "generating" =>
    /\ Len(send.relevantChunks) <= TopK
    /\ \A i \in 1..Len(send.relevantChunks) :
         closureScore(send.relevantChunks[i]) > RelevanceFloor

\* C7 witness: a retrieval returned 3 chunks although more than 3 chunks of
\* the corpus score above the floor.
C7_Witness ==
  /\ send.pc = "generating"
  /\ Len(send.relevantChunks) = TopK
  /\ Cardinality({i \in 1..Len(send.closure.chunks) :
                    closureScore(send.closure.chunks[i]) > RelevanceFloor})
       > TopK

\* C8: the returned chunks are chunks of the corpus, taken at different
\* positions, in non-increasing score order; returned chunks of equal score
\* keep their corpus order, and no omitted chunk scores higher than a
\* returned one.
C8_SortedStableBestFirst ==
  send.pc = "generating" =>
    LET result == send.relevantChunks
        corpus == send.closure.chunks
    IN \E position \in [1..Len(result) -> 1..Len(corpus)] :
         /\ \A i \in 1..Len(result) : corpus[position[i]] = result[i]
         /\ \A i, j \in 1..Len(result) : i # j => position[i] # position[j]
         /\ \A i \in 1..(Len(result) - 1) :
              /\ closureScore(result[i]) >= closureScore(result[i + 1])
              /\ closureScore(result[i]) = closureScore(result[i + 1])
                   => position[i] < position[i + 1]
         /\ \A j \in 1..Len(corpus) :
              (\A i \in 1..Len(result) : position[i] # j)
              => \A i \in 1..Len(result) :
                   closureScore(corpus[j]) <= closureScore(result[i])

\* C8 witness: a retrieval returned 3 chunks, two of them with equal score and
\* two with different scores, and left out a chunk that scores above the floor.
C8_Witness ==
  /\ send.pc = "generating"
  /\ Len(send.relevantChunks) = TopK
  /\ \E i \in 1..(TopK - 1) :
       closureScore(send.relevantChunks[i])
         = closureScore(send.relevantChunks[i + 1])
  /\ \E i \in 1..(TopK - 1) :
       closureScore(send.relevantChunks[i])
         > closureScore(send.relevantChunks[i + 1])
  /\ Cardinality({j \in 1..Len(send.closure.chunks) :
                    closureScore(send.closure.chunks[j]) > RelevanceFloor})
       > TopK

\* C9: a retrieval on an empty knowledge base, or one in which no chunk scores
\* above the relevance floor, returns the empty sequence.
C9_EmptyWhenNothingRelevant ==
  send.pc = "generating" =>
    ((\/ Len(send.closure.chunks) = 0
      \/ \A j \in 1..Len(send.closure.chunks) :
           closureScore(send.closure.chunks[j]) <= RelevanceFloor)
     => send.relevantChunks = <<>>)

\* C9 witness: a retrieval on an indexed, non-empty corpus in which no chunk
\* scores above the floor returned nothing.
C9_Witness ==
  /\ send.pc = "generating"
  /\ Len(send.closure.chunks) > 0
  /\ DOMAIN send.closure.idfMap # {}
  /\ \A j \in 1..Len(send.closure.chunks) :
       closureScore(send.closure.chunks[j]) <= RelevanceFloor
  /\ send.relevantChunks = <<>>

\* The retrieval on the empty knowledge base is reached too.
C9_EmptyKnowledgeBaseQueried ==
  send.pc = "generating" /\ Len(send.closure.chunks) = 0

sampleDocuments ==
  [i \in 1..Len(sampleDocs) |->
     [name |-> sampleDocs[i].name, type |-> "text/plain",
      size |-> Len(sampleDocs[i].content)]]

RECURSIVE sampleChunks(_)
sampleChunks(i) ==
  IF i > Len(sampleDocs) THEN <<>>
  ELSE intelligentChunking(sampleDocs[i].content, sampleDocs[i].name).chunks
       \o sampleChunks(i + 1)

sampleMessages == <<aiMessage("sample", <<>>, <<>>, <<>>)>>

\* C10: the step that loads the sample data (the one that leaves the sample
\* confirmation as the only message) leaves exactly the three sample
\* documents in their listed order and exactly their chunks, whatever had
\* been ingested before, and an index that holds only what these chunks give.
C10_SampleLoadReplacesAll ==
  [][(messages # sampleMessages /\ messages' = sampleMessages) =>
       /\ documents' = sampleDocuments
       /\ chunks' = sampleChunks(1)
       /\ idfMap' = calculateIdf(sampleChunks(1))
       /\ DOMAIN chunkTfidfVectors'
            = {getChunkId(sampleChunks(1)[i]) : i \in 1..Len(sampleChunks(1))}
       /\ \A id \in DOMAIN chunkTfidfVectors' :
            DOMAIN chunkTfidfVectors'[id] \subseteq DOMAIN idfMap']_vars

\* C10 witness: the sample load has finished after a file had been dropped,
\* and the knowledge base is exactly the sample one.
C10_Witness ==
  /\ messages = sampleMessages
  /\ nEvents > 1
  /\ reading = EmptyBag
  /\ queue = <<>>
  /\ documents = sampleDocuments
  /\ chunks = sampleChunks(1)
  /\ idfMap = calculateIdf(sampleChunks(1))

\* The substring [k*(size-overlap), min(k*(size-overlap)+size, length)).
windowText(text, size, overlap, k) ==
  SubSeq(text, k * (size - overlap) + 1,
         Min(k * (size - overlap) + size, Len(text)))

\* The number of k >= 0 with k*(size-overlap) < length.
windowCount(length, size, overlap) ==
  (length + (size - overlap) - 1) \div (size - overlap)

\* C11: with size > overlap the chunker gives one chunk for every k >= 0 with
\* k*(size-overlap) < length, and the k-th chunk has chunkIndex k and the text
\* [k*(size-overlap), min(k*(size-overlap)+size, length)) of the input.
C11_SlidingWindowChunks ==
  (call.op = "slidingWindow" /\ call.done
     /\ call.config.size > call.config.overlap) =>
    /\ Len(call.chunks)
         = windowCount(Len(call.text), call.config.size, call.config.overlap)
    /\ \A k \in 0..(Len(call.chunks) - 1) :
         /\ call.chunks[k + 1].chunkIndex = k
         /\ call.chunks[k + 1].text
              = windowText(call.text, call.config.size, call.config.overlap, k)

\* C11 witness: "AAAA" chunked with size 3 and overlap 1 gave "AAA" and "AA".
C11_Witness ==
  /\ call.op = "slidingWindow"
  /\ call.done
  /\ call.text = <<"A", "A", "A", "A">>
  /\ call.config = [size |-> 3, overlap |-> 1]
  /\ Len(call.chunks) = 2
  /\ call.chunks[1].text = <<"A", "A", "A">>
  /\ call.chunks[2].text = <<"A", "A">>

\* A chunk's text without its leading overlap characters.
withoutOverlap(text, overlap) == SubSeq(text, overlap + 1, Len(text))

RECURSIVE reassembled(_, _, _)
reassembled(cs, overlap, i) ==
  IF i > Len(cs) THEN <<>>
  ELSE (IF i = 1 THEN cs[i].text ELSE withoutOverlap(cs[i].text, overlap))
       \o reassembled(cs, overlap, i + 1)

\* C12: the first chunk whole followed by every later chunk without its
\* leading overlap characters is the chunked text, for the small windows with
\* size > overlap and for the two shipped windows.
C12_ChunksReassembleText ==
  (call.op # "none" /\ call.done /\ call.config.size > call.config.overlap)
    => reassembled(call.chunks, call.config.overlap, 1) = call.text

\* C12 witness: a text was given back by three chunks or more, the last of
\* which is no longer than the overlap and so adds nothing.
C12_Witness ==
  /\ call.op = "slidingWindow"
  /\ call.done
  /\ call.config.size > call.config.overlap
  /\ Len(call.chunks) >= 3
  /\ Len(call.chunks[Len(call.chunks)].text) <= call.config.overlap
  /\ ChunkAlphabet \subseteq Range(call.text)
  /\ reassembled(call.chunks, call.config.overlap, 1) = call.text

C14_ClassifiedByNewlineDensity ==
  (call.op = "intelligentChunking" /\ call.done) =>
    LET newlines == Cardinality({i \in 1..Len(call.text) : call.text[i] = "\n"})
        atomic == 100 * newlines > 3 * Len(call.text)
        size == IF atomic THEN 400 ELSE 800
        overlap == IF atomic THEN 40 ELSE 80
    IN /\ call.contentType = (IF atomic THEN "atomic" ELSE "narrative")
       /\ Len(call.chunks) = windowCount(Len(call.text), size, overlap)
       /\ \A k \in 0..(Len(call.chunks) - 1) :
            /\ call.chunks[k + 1].chunkIndex = k
            /\ call.chunks[k + 1].contentType = call.contentType
            /\ call.chunks[k + 1].text = windowText(call.text, size, overlap, k)

\* C14 witness: a text of 900 characters with 27 newlines (density exactly
\* 0.03) was classified narrative and cut into chunks of 800 and 180.
C14_Witness ==
  /\ call.op = "intelligentChunking"
  /\ call.done
  /\ call.text = patternText(900, 27)
  /\ call.contentType = "narrative"
  /\ Len(call.chunks) = 2
  /\ Len(call.chunks[1].text) = 800
  /\ Len(call.chunks[2].text) = 180

\* The atomic side: 450 characters with 14 newlines, chunks of 400 and 90.
C14_AtomicReached ==
  /\ call.op = "intelligentChunking"
  /\ call.done
  /\ call.text = patternText(450, 14)
  /\ call.contentType = "atomic"
  /\ Len(call.chunks) = 2
  /\ Len(call.chunks[1].text) = 400
  /\ Len(call.chunks[2].text) = 90

\* The chunks of the corpus cs whose tokens include the term.
chunksWithTerm(cs, term) ==
  {i \in 1..Len(cs) :
     \E j \in 1..Len(tokenize(cs[i].text)) : tokenize(cs[i].text)[j] = term}

\* C15: the keys of the IDF table are exactly the tokens occurring in some
\* chunk, and each weight is ln((N+1)/(df+1)) + 1 for N chunks, df of them
\* containing the term (however often); the empty corpus gives the empty table.
C15_IdfTable ==
  call.op \in {"calculatedIdf", "vectorized"} =>
    /\ DOMAIN call.idf
         = UNION {Range(tokenize(call.chunks[i].text)) :
                    i \in 1..Len(call.chunks)}
    /\ \A term \in DOMAIN call.idf :
         call.idf[term]
           = LnTable[Len(call.chunks) + 1]
                    [Cardinality(chunksWithTerm(call.chunks, term)) + 1]
             + IdfScale
    /\ Len(call.chunks) = 0 => call.idf = EmptyMap

\* C15 witness: a table was computed for a corpus in which a term occurs twice
\* in one chunk and in no other chunk, and another term in several chunks.
C15_Witness ==
  /\ call.op = "calculatedIdf"
  /\ Len(call.chunks) > 1
  /\ \E term \in DOMAIN call.idf :
       /\ Cardinality(chunksWithTerm(call.chunks, term)) = 1
       /\ \E i \in 1..Len(call.chunks) :
            termFrequency(tokenize(call.chunks[i].text), term) = 2
  /\ \E term \in DOMAIN call.idf :
       Cardinality(chunksWithTerm(call.chunks, term)) > 1

\* C16 as stated: every key of a vector has a non-zero weight.
C16_KeysHaveNonZeroWeight ==
  call.op = "vectorized" =>
    \A term \in DOMAIN call.vector : call.vector[term] # 0

\* C16: the keys of a vector are the distinct tokens of the vectorized text,
\* and a key has weight zero exactly when its term is absent from the IDF
\* table; so every non-zero weight belongs to a term of the table.
C16_ZeroWeightIffUnknownTerm ==
  call.op = "vectorized" =>
    /\ DOMAIN call.vector = Range(tokenize(call.text))
    /\ \A term \in DOMAIN call.vector :
         (call.vector[term] = 0) <=> (term \notin DOMAIN call.idf)

\* C16 witness: a vector with a key of weight zero for a term that the table
\* lacks, beside a key of non-zero weight.
C16_Witness ==
  /\ call.op = "vectorized"
  /\ \E term \in DOMAIN call.vector :
       call.vector[term] = 0 /\ term \notin DOMAIN call.idf
  /\ \E term \in DOMAIN call.vector : call.vector[term] > 0

\* The tokens of the query of the retrieval in flight.
queryTerms == Range(tokenize(retrievalQuery))

\* C17: a query that is empty, tokenizes to nothing or has only terms that the
\* IDF table lacks scores 0 against every chunk and retrieves nothing; and a
\* chunk whose text has no token scores 0 for every query and is never
\* among the retrieved chunks.
C17_NoTermsNoMatch ==
  send.pc = "generating" =>
    /\ queryTerms \cap DOMAIN send.closure.idfMap = {} =>
         /\ \A j \in 1..Len(send.closure.chunks) :
              closureScore(send.closure.chunks[j]) = 0
         /\ send.relevantChunks = <<>>
    /\ \A j \in 1..Len(send.closure.chunks) :
         tokenize(send.closure.chunks[j].text) = <<>> =>
           /\ closureScore(send.closure.chunks[j]) = 0
           /\ send.closure.chunks[j] \notin Range(send.relevantChunks)

\* The chunk and the query have a token in common.
sharesTerm(chunk) == Range(tokenize(chunk.text)) \cap queryTerms # {}

\* C18: a chunk that shares a token with the query scores strictly higher
\* than every chunk that shares none, and a chunk that shares none is never
\* among the retrieved chunks.
C18_SharedTermRanksAbove ==
  send.pc = "generating" =>
    \A j \in 1..Len(send.closure.chunks) :
      ~sharesTerm(send.closure.chunks[j]) =>
        /\ send.closure.chunks[j] \notin Range(send.relevantChunks)
        /\ \A i \in 1..Len(send.closure.chunks) :
             sharesTerm(send.closure.chunks[i]) =>
               closureScore(send.closure.chunks[i])
                 > closureScore(send.closure.chunks[j])

C19_OtherQueryDiffers ==
  /\ call.op = "findRelevantChunks"
  /\ send.pc = "generating"
  /\ call.query # send.query
  /\ call.result # send.relevantChunks

\* C20: whatever makes the query expansion fail, the await of expandQuery
\* ends with the empty list, and handleSendMessage goes on to retrieval with
\* the original query alone and to generation: the only way out of the await
\* is the step to generation, and without an API key it carries no expansion.
C20_ExpansionFailureTolerated ==
  [][(send.pc = "expanding" /\ send'.pc # "expanding") =>
       /\ send'.pc = "generating"
       /\ ~apiKeySet => send'.expandedQueries = <<>>
       /\ send'.expandedQueries = <<>> =>
            send'.relevantChunks = findRelevantChunks(send.closure, send.query)
    ]_vars

\* The messages of the exchanges: user queries and the replies to them.
ReplyKinds == {"answer", "apology", "error"}

exchangeMessages ==
  SelectSeq(messages, LAMBDA m : m.kind \in ReplyKinds \cup {"query"})

\* C21: the messages of the exchanges alternate, a user message first and one
\* AI reply (answer, apology or error notice) after it; isAiLoading is true
\* exactly while the last user message has no reply; and every exchange ends:
\* isAiLoading always becomes false again.
C21_ExchangeTerminates ==
  /\ [](/\ \A i \in 1..Len(exchangeMessages) :
             (exchangeMessages[i].kind = "query") <=> (i % 2 = 1)
        /\ isAiLoading <=> (Len(exchangeMessages) % 2 = 1))
  /\ (isAiLoading ~> ~isAiLoading)

\* C21 witness: two exchanges have ended, one with the model's answer or
\* apology and one with the error notice.
C21_Witness ==
  /\ ~isAiLoading
  /\ send.pc = "idle"
  /\ Len(exchangeMessages) = 2
  /\ exchangeMessages[1].kind = "query"
  /\ exchangeMessages[2].kind \in {"answer", "apology"}
  /\ exchangeMessages[2].sources # <<>>

\* The exchange that fails at the expansion ends with the error notice.
C21_ErrorNoticeReached ==
  /\ ~isAiLoading
  /\ Len(exchangeMessages) = 2
  /\ exchangeMessages[2].kind = "error"
\* The number of chunks at the head of cs that carry the source `name` and
\* the chunkIndex values k, k + 1, ...
RECURSIVE runLength(_, _, _)
runLength(name, cs, k) ==
  IF k < Len(cs) /\ cs[k + 1].source = name /\ cs[k + 1].chunkIndex = k
  THEN runLength(name, cs, k + 1)
  ELSE k

\* cs is, document by document in the order of docs, a run of chunks of that
\* document numbered 0, 1, 2, ... (a document may have no chunk).
RECURSIVE chunksFollowDocuments(_, _)
chunksFollowDocuments(docs, cs) ==
  IF docs = <<>> THEN cs = <<>>
  ELSE LET n == runLength(Head(docs).name, cs, 0)
       IN chunksFollowDocuments(Tail(docs), SubSeq(cs, n + 1, Len(cs)))

isPrefix(s, t) == Len(s) <= Len(t) /\ SubSeq(t, 1, Len(s)) = s

\* C22: in every state chunks is the concatenation, in the order of
\* documents, of each document's chunks numbered 0, 1, 2, ... without gaps;
\* and every step other than the sample load, which replaces everything,
\* keeps the documents and chunks it found as a prefix of the new sequences.
C22_IngestionOrderKept ==
  /\ [] chunksFollowDocuments(documents, chunks)
  /\ [][\/ isPrefix(documents, documents') /\ isPrefix(chunks, chunks')
        \/ messages # sampleMessages /\ messages' = sampleMessages]_vars
C22_Witness ==
  /\ Len(documents) = 3
  /\ \E i \in 1..Len(chunks) - 1 :
       chunks[i].chunkIndex = 1 /\ chunks[i + 1].chunkIndex = 0
  /\ \E i, j \in 1..Len(documents) : i # j /\ documents[i].name = documents[j].name

\* The text behind a Document: that of the dropped file or sample document
\* with its name and size.
textOf(doc) ==
  IF \E i \in 1..Len(sampleDocs) : sampleDocs[i].name = doc.name
  THEN sampleDocs[CHOOSE i \in 1..Len(sampleDocs) :
                    sampleDocs[i].name = doc.name].content
  ELSE (CHOOSE file \in Files :
          file.name = doc.name /\ file.size = doc.size).text

\* The chunks of the documents docs, document by document.
RECURSIVE ingestedChunks(_)
ingestedChunks(docs) ==
  IF docs = <<>> THEN <<>>
  ELSE intelligentChunking(textOf(Head(docs)), Head(docs).name).chunks
       \o ingestedChunks(Tail(docs))

\* What a render of the pending updates alone would commit.
pendingOutcome == applyAll(committed, queue)

\* documents, chunks and messages as they will be once the updates q are
\* rendered on top of d, c and m.
settled(d, c, m, q) ==
  LET st == applyAll([documents |-> d, chunks |-> c, messages |-> m,
                      isFileProcessing |-> FALSE, isAiLoading |-> FALSE], q)
  IN <<st.documents, st.chunks, st.messages>>

\* The step in which the read of `file` ends in a rejection.
readFails(file) ==
  /\ BagIn(file, reading)
  /\ file.type # "text/plain" \/ ~file.readable
  /\ reading' = reading (-) SetToBag({file})

\* C23: the chunks are always exactly those of the documents (no Document
\* without its Chunks, no Chunks without their Document); the step in which a
\* read is rejected changes neither documents, chunks, index or messages nor
\* what the pending updates will make of them; and the upload of a file over
\* 5 MB commits what a render of the pending updates alone would commit.
C23_FailedUploadAppliesNothing ==
  /\ [](chunks = ingestedChunks(documents))
  /\ [][\A file \in Files :
          /\ readFails(file) =>
               /\ <<documents', chunks', messages', idfMap',
                    chunkTfidfVectors'>>
                  = <<documents, chunks, messages, idfMap, chunkTfidfVectors>>
               /\ settled(documents', chunks', messages', queue')
                  = settled(documents, chunks, messages, queue)
          /\ (file.size > MaxFileSize /\ handleFileUpload(file)) =>
               /\ documents' = pendingOutcome.documents
               /\ chunks' = pendingOutcome.chunks
               /\ messages' = pendingOutcome.messages
               /\ idfMap' = IF effectPending THEN reindexed(chunks).idfMap
                            ELSE idfMap
               /\ chunkTfidfVectors' =
                    IF effectPending THEN reindexed(chunks).chunkTfidfVectors
                    ELSE chunkTfidfVectors
               /\ reading' = reading]_vars
C23_Witness ==
  /\ nEvents = 2
  /\ Len(documents) = 1
  /\ Len(chunks) = 1
  /\ Len(messages) = 1
  /\ reading = EmptyBag
  /\ queue = <<>>
  /\ ~isFileProcessing

\* C24 as stated: a zero-length text gives no chunk; otherwise, for a window
\* with size > overlap, there are ceil(length / (size - overlap)) chunks, each
\* non-empty and at most size characters long, and every chunk but the last
\* is exactly size characters long.
C24_AllButLastFullSize ==
  (call.op \in {"slidingWindow", "intelligentChunking"} /\ call.done) =>
    /\ Len(call.text) = 0 => call.chunks = <<>>
    /\ call.config.size > call.config.overlap =>
         /\ Len(call.chunks) = windowCount(Len(call.text), call.config.size,
                                           call.config.overlap)
         /\ \A k \in 1..Len(call.chunks) :
              /\ Len(call.chunks[k].text) \in 1..call.config.size
              /\ k < Len(call.chunks)
                   => Len(call.chunks[k].text) = call.config.size

\* C24, amended: the same count and bounds, and the chunk starting at offset
\* s = k * (size - overlap) holds min(size, length - s) characters: a chunk is
\* exactly size characters long when its window ends within the text, and
\* any later chunk (there may be several when overlap > 0) is shorter.
C24_ChunkLengths ==
  (call.op \in {"slidingWindow", "intelligentChunking"} /\ call.done) =>
    /\ Len(call.text) = 0 => call.chunks = <<>>
    /\ call.config.size > call.config.overlap =>
         /\ Len(call.chunks) = windowCount(Len(call.text), call.config.size,
                                           call.config.overlap)
         /\ \A k \in 1..Len(call.chunks) :
              LET start == (k - 1) * (call.config.size - call.config.overlap)
              IN /\ Len(call.chunks[k].text) \in 1..call.config.size
                 /\ Len(call.chunks[k].text)
                      = Min(call.config.size, Len(call.text) - start)

\* C24 witness: a 1500-character narrative text gave chunks of 800, 780 and
\* 60 characters.
C24_Witness ==
  /\ call.op = "intelligentChunking"
  /\ call.done
  /\ call.config = NARRATIVE_CHUNK_CONFIG
  /\ Len(call.text) = 1500
  /\ Len(call.chunks) = 3
  /\ Len(call.chunks[1].text) = 800
  /\ Len(call.chunks[2].text) = 780
  /\ Len(call.chunks[3].text) = 60

\* The original query followed by, for every expansion in order, one space
\* and the expansion.
RECURSIVE withExpansions(_, _)
withExpansions(query, expandedQueries) ==
  IF expandedQueries = <<>> THEN query
  ELSE withExpansions(query \o <<" ">> \o Head(expandedQueries),
                      Tail(expandedQueries))

\* C25: the step from the expansion to the generation call keeps the original
\* query as the query handed to generation and retrieves, with the one string
\* made of the original query and then every expansion, the chunks handed to
\* generation; the step that ends the generation call queues an AI message
\* whose sources are those chunks and whose expansions are those used.
C25_RetrievalAndGenerationInputs ==
  [][/\ (send.pc = "expanding" /\ send'.pc = "generating") =>
          /\ send'.query = send.query
          /\ send'.relevantChunks
               = findRelevantChunks(send.closure,
                                    withExpansions(send.query,
                                                   send'.expandedQueries))
     /\ (send.pc = "generating" /\ send'.pc # "generating") =>
          /\ Len(queue') = Len(queue) + 2
          /\ queue'[Len(queue) + 1].op = "appendMessage"
          /\ queue'[Len(queue) + 1].arg.kind \in {"answer", "apology"}
          /\ queue'[Len(queue) + 1].arg.sources = send.relevantChunks
          /\ queue'[Len(queue) + 1].arg.expandedQueries
               = send.expandedQueries
    ]_vars
\* C25 witness: an answer whose sources were found through the expansion
\* only: the original query alone retrieves nothing from that index.
C25_Witness ==
  \E i \in 2..Len(messages) :
    /\ messages[i].kind = "answer"
    /\ messages[i].sources # <<>>
    /\ messages[i].expandedQueries # <<>>
    /\ messages[i - 1].kind = "query"
    /\ findRelevantChunks(indexOf(chunks), messages[i - 1].text) = <<>>

\* The letters and digits; "é" stands for the letters outside ASCII.
Alphanumeric == Range(LowerCase) \cup Range(UpperCase) \cup Digits \cup {"é"}

\* The maximal runs of non-whitespace of `cleaned` from position i on, in
\* text order.
RECURSIVE wordsFrom(_, _)
wordsFrom(cleaned, i) ==
  IF i > Len(cleaned) THEN <<>>
  ELSE IF cleaned[i] \in WhiteSpace THEN wordsFrom(cleaned, i + 1)
  ELSE LET end == CHOOSE j \in i..Len(cleaned) :
                    /\ \A k \in i..j : cleaned[k] \notin WhiteSpace
                    /\ j = Len(cleaned) \/ cleaned[j + 1] \in WhiteSpace
       IN <<SubSeq(cleaned, i, end)>> \o wordsFrom(cleaned, end + 1)

\* The words of the text lower-cased and reduced to the characters of `kept`
\* and whitespace.
wordsKeeping(text, kept) ==
  wordsFrom(SelectSeq(toLowerCase(text),
                      LAMBDA c : c \in kept \cup WhiteSpace), 1)

\* C26: the tokens of a text are, in text order, the maximal
\* whitespace-separated words of the text lower-cased and stripped of every
\* character that is neither alphanumeric nor whitespace; no token is empty
\* or holds whitespace, an upper-case letter or a non-alphanumeric character;
\* and the terms indexed for a chunk and the terms of a query are these
\* tokens.
C26_TokensAreAlphanumericWords ==
  (call.op \in {"tokenized", "indexed"} =>
     /\ call.tokens = wordsKeeping(call.text, Alphanumeric)
     /\ \A i \in 1..Len(call.tokens) :
          /\ call.tokens[i] # <<>>
          /\ Range(call.tokens[i])
               \subseteq Alphanumeric \ Range(UpperCase))
  /\ (call.op = "indexed" =>
        /\ DOMAIN call.idf = Range(call.tokens)
        /\ DOMAIN call.vector = Range(call.tokens))

\* What holds instead: the characters kept are those of the class \w (ASCII
\* letters, digits and the underscore).
C26_TokensAreWordCharacterRuns ==
  (call.op \in {"tokenized", "indexed"} =>
     /\ call.tokens = wordsKeeping(call.text, WordChars)
     /\ \A i \in 1..Len(call.tokens) :
          /\ call.tokens[i] # <<>>
          /\ Range(call.tokens[i]) \subseteq WordChars \ Range(UpperCase))
  /\ (call.op = "indexed" =>
        /\ DOMAIN call.idf = Range(call.tokens)
        /\ DOMAIN call.vector = Range(call.tokens))

\* "a_B" was tokenized to the one token "a_b".
C26_UnderscoreKept ==
  /\ call.op = "indexed"
  /\ call.text = <<"a", "_", "B">>
  /\ call.tokens = << <<"a", "_", "b">> >>
  /\ DOMAIN call.idf = { <<"a", "_", "b">> }

\* C27: isFileProcessing is true in every state in which the read of at least
\* one uploaded file has neither resolved nor rejected.
C27_ProcessingWhileInFlight ==
  BagToSet(reading) # {} => isFileProcessing

\* The step in which a user message is appended.
querySubmitted ==
  /\ Len(messages') > Len(messages)
  /\ messages'[Len(messages')].sender = "user"

\* C28: a user message is appended only while the knowledge base has a chunk
\* and no exchange is in flight or shown as pending; an exchange in flight is
\* shown as pending from its first step on; and a user message in the list
\* is never directly followed by another user message.
C28_OneExchangeAtATime ==
  /\ [][querySubmitted =>
          /\ Len(chunks) > 0
          /\ ~isAiLoading
          /\ send.pc = "idle"
          /\ send'.pc = "expanding"]_vars
  /\ [](send.pc # "idle" => isAiLoading)
  /\ [](\A i \in 1..Len(messages) - 1 :
          messages[i].sender = "user" => messages[i + 1].sender = "ai")
\* C28 witness: a second query was submitted after the first was answered.
C28_Witness ==
  /\ send.pc = "expanding"
  /\ \E i \in 1..Len(messages) - 2 :
       /\ messages[i].sender = "user"
       /\ messages[i + 1].kind \in ReplyKinds
       /\ messages[Len(messages)].sender = "user"

\* C29: every chunk's source is the name of a listed Document, chunks with
\* the same source carry the same contentType, and no step changes chunks
\* without changing documents.
C29_ChunksMatchDocuments ==
  /\ [](\A i \in 1..Len(chunks) :
          \E d \in 1..Len(documents) : documents[d].name = chunks[i].source)
  /\ [](\A i, j \in 1..Len(chunks) :
          chunks[i].source = chunks[j].source
            => chunks[i].contentType = chunks[j].contentType)
  /\ [][chunks' # chunks => documents' # documents]_vars

\* What holds of C29 when two uploads share a name: all but the second
\* conjunct.
C29_SourcesListed ==
  /\ [](\A i \in 1..Len(chunks) :
          \E d \in 1..Len(documents) : documents[d].name = chunks[i].source)
  /\ [][chunks' # chunks => documents' # documents]_vars

\* A step of an exchange after its submission: send moves on without a user
\* event.
exchangeAdvances == send' # send /\ nEvents' = nEvents

\* C30: the submission of a query commits, of documents, chunks and index,
\* exactly what a render of the updates already pending would commit; every
\* later step of the exchange leaves documents, chunks, idfMap and
\* chunkTfidfVectors as they are and queues, after the updates already
\* pending, only updates of messages and isAiLoading.
C30_ExchangeLeavesKnowledgeBase ==
  [][/\ querySubmitted =>
          /\ documents' = pendingOutcome.documents
          /\ chunks' = pendingOutcome.chunks
          /\ idfMap' = IF effectPending THEN reindexed(chunks).idfMap
                       ELSE idfMap
          /\ chunkTfidfVectors' =
               IF effectPending THEN reindexed(chunks).chunkTfidfVectors
               ELSE chunkTfidfVectors
          /\ isFileProcessing' = pendingOutcome.isFileProcessing
     /\ exchangeAdvances =>
          /\ <<documents', chunks', idfMap', chunkTfidfVectors'>>
             = <<documents, chunks, idfMap, chunkTfidfVectors>>
          /\ isPrefix(queue, queue')
          /\ \A i \in (Len(queue) + 1)..Len(queue') :
               queue'[i].op \in {"appendMessage", "setIsAiLoading"}
    ]_vars
\* C30 witness: an exchange that retrieved sources has ended and been
\* rendered, with the index still that of the chunks.
C30_Witness ==
  /\ send.pc = "idle"
  /\ queue = <<>>
  /\ ~effectPending
  /\ ~isAiLoading
  /\ Len(messages) > 0
  /\ messages[Len(messages)].kind \in ReplyKinds
  /\ messages[Len(messages)].sources # <<>>
  /\ messages[Len(messages)].sources
       \in [1..Len(messages[Len(messages)].sources) -> Range(chunks)]
  /\ [chunks |-> chunks, chunkTfidfVectors |-> chunkTfidfVectors,
      idfMap |-> idfMap] = indexOf(chunks)

====
